---------------------------- MODULE Spec2Model ----------------------------
(***************************************************************************)
(* Model of json_chef.py, the Khan Academy sushi chef: the dub-duplication *)
(* pass (duplicate_videos) and the recursive converter                     *)
(* (KhanAcademySushiChef.convert_ka_node_to_ricecooker_node) as pre_run    *)
(* drives them.                                                            *)
(*                                                                         *)
(* The KA source tree is a heap of node objects (ka_nodes, indexed by      *)
(* object identity 1..Len): Python shares node objects between the tree    *)
(* and topics_by_slug, and duplicate_videos mutates them in place.         *)
(* A Python exception is a result of kind "Raise" that every caller        *)
(* propagates, as none of the code catches anything.                       *)
(***************************************************************************)
EXTENDS Integers, Sequences, FiniteSets, TLC

VARIABLES
    ka_nodes,            \* heap of KhanNode objects, object id -> fields
    topics_by_slug,      \* self.topics_by_slug: slug -> object id
    slug_blacklist,      \* self.slug_blacklist
    topic_replacements,  \* self.topic_replacements: slug -> descriptor
    options,             \* pre_run options: lang, english_subtitles
    lang_tables,         \* constants.VIDEO_LANGUAGE_MAPPING, UNSUBTITLED_LANGS
    pc,                  \* position in pre_run
    root_topic,          \* result of the conversion of ka_root_topic
    channel_children,    \* channel_node["children"]
    raised               \* the exception that left pre_run, "" if none

vars == <<ka_nodes, topics_by_slug, slug_blacklist, topic_replacements,
          options, lang_tables, pc, root_topic, channel_children, raised>>

(***************************************************************************)
(* Bounds of the checked inputs.                                           *)
(***************************************************************************)
MaxItems == 3

MaxVideos == 3

MaxBlacklist == 1

MaxGrandchildren == 2

(***************************************************************************)
(* Python values.                                                          *)
(***************************************************************************)
\* Python's None as an assessment item payload.
NONE == "<None>"

\* The object id of ka_root_topic.
ROOT == 1

None == [kind |-> "None"]

\* The dicts the converter returns. Every dict carries every key of the
\* model (a key a kind does not have keeps its default); src is the object
\* id of the KA node the dict was built from, 0 when it was built from a
\* replacement descriptor.
OutNode(kind, src) ==
    [kind |-> kind, source_id |-> "", title |-> <<>>, slug |-> "",
     children |-> <<>>, questions |-> <<>>, files |-> <<>>, license |-> "",
     exercise_data |-> "", src |-> src]

Raise(e) == [kind |-> "Raise", error |-> e]

DUB_MARKER == "-dubbed(KY)"

Range(s) == {s[i] : i \in 1..Len(s)}

\* str.lower() on the language codes of the model.
Lower(l) == CASE l = "pt-BR" -> "pt-br" [] l = "FR" -> "fr" [] OTHER -> l

\* dict.get(key, key) on VIDEO_LANGUAGE_MAPPING.
MapVideoLanguage(l) ==
    IF l \in DOMAIN lang_tables.VIDEO_LANGUAGE_MAPPING
    THEN lang_tables.VIDEO_LANGUAGE_MAPPING[l] ELSE l

\* primary_code of a language object (le_utils / pressurecooker).
PrimaryCode(l) ==
    CASE l \in {"pt", "pt-BR", "pt-br"} -> "pt"
      [] l \in {"fr", "FR"} -> "fr"
      [] OTHER -> l

\* ricecooker's is_youtube_subtitle_file_supported_language.
is_youtube_subtitle_file_supported_language(l) == l # "xx"

should_include_subtitle(youtube_language, target_lang) ==
    PrimaryCode(youtube_language) = PrimaryCode(target_lang)

LICENSE_MAPPING == {"CC BY", "CC BY-NC", "CC BY-NC-ND",
                    "CC BY-NC-SA (KA default)", "CC BY-SA",
                    "Non-commercial/non-Creative Commons (College Board)"}

EXERCISE_MAPPING == {"do-all", "skill-check", "num_problems_4",
                     "num_problems_7", "num_problems_14",
                     "num_correct_in_a_row_2", "num_correct_in_a_row_3",
                     "num_correct_in_a_row_5", "num_correct_in_a_row_10"}

(***************************************************************************)
(* KhanNode objects. Every object carries every field, so that the heap is *)
(* one function; a field a variant does not have keeps its default.        *)
(***************************************************************************)
KhanNode(kind, slug) ==
    [kind |-> kind, id |-> slug, slug |-> slug, title |-> <<slug>>,
     children |-> <<>>, mastery_model |-> "", items |-> <<>>,
     youtube_id |-> "", translated_youtube_id |-> "", lang |-> "",
     license |-> "", download_urls |-> <<>>, subtitle_languages |-> <<>>]

KhanTopic(slug, children) ==
    [KhanNode("KhanTopic", slug) EXCEPT !.children = children]

KhanExercise(slug, mastery_model, items) ==
    [KhanNode("KhanExercise", slug) EXCEPT !.mastery_model = mastery_model,
                                           !.items = items]

\* v: the fields get_khan_topic_tree reads from the KA API for a video.
KhanVideo(slug, v) ==
    [KhanNode("KhanVideo", slug) EXCEPT
        !.youtube_id = v.youtube_id,
        !.translated_youtube_id = v.translated_youtube_id,
        !.lang = v.lang, !.license = v.license,
        !.download_urls = v.download_urls,
        !.subtitle_languages = v.subtitle_languages]

KhanArticle(slug) == KhanNode("KhanArticle", slug)

\* A download URL is the sequence of its path segments; `x in url` and
\* url.replace(a, b) act on the segment that holds the YouTube identifier.
Url(id, format) == <<"cdn", id, format>>

StrContains(url, id) == id \in Range(url)

StrReplace(url, old, new) ==
    [i \in 1..Len(url) |-> IF url[i] = old THEN new ELSE url[i]]

(***************************************************************************)
(* Exercise branch of the converter.                                       *)
(***************************************************************************)
\* `ka_assessment_item.data and ka_assessment_item.data != "null"`
ItemDataUsable(data) == data # NONE /\ data # "" /\ data # "null"

AssessmentItem(item) ==
    [question_type |-> "perseus_question", id |-> item.id,
     item_data |-> item.data]

\* The loop over get_assessment_items(). The append is outside the `if`:
\* an unusable item appends the dict left in the local `assessment_item` by
\* the last usable item, and raises UnboundLocalError when there was none.
\* `last` is that local: <<>> while unbound, <<dict>> once assigned.
RECURSIVE CollectQuestions(_, _, _, _)
CollectQuestions(items, i, last, questions) ==
    IF i > Len(items) THEN [error |-> "", out |-> questions]
    ELSE IF ItemDataUsable(items[i].data)
         THEN CollectQuestions(items, i + 1, <<AssessmentItem(items[i])>>,
                               Append(questions, AssessmentItem(items[i])))
         ELSE IF last = <<>>
              THEN [error |-> "UnboundLocalError", out |-> questions]
              ELSE CollectQuestions(items, i + 1, last,
                                    Append(questions, last[1]))

ExerciseData(mastery_model) ==
    IF mastery_model \in EXERCISE_MAPPING THEN mastery_model ELSE "m_of_n"

ConvertExercise(n) ==
    LET ka_node == ka_nodes[n]
        qs == CollectQuestions(ka_node.items, 1, <<>>, <<>>)
    IN  IF qs.error # "" THEN Raise(qs.error)
        ELSE IF qs.out = <<>> THEN None
        ELSE [OutNode("exercise", n) EXCEPT
                 !.source_id = ka_node.id, !.title = ka_node.title,
                 !.slug = ka_node.slug,
                 !.exercise_data = ExerciseData(ka_node.mastery_model),
                 !.questions = qs.out]

(***************************************************************************)
(* Video branch of the converter.                                          *)
(***************************************************************************)
\* download_urls.get("mp4-low", download_urls.get("mp4")); <<>> is None.
ResolveDownloadUrl(download_urls) ==
    IF "mp4-low" \in DOMAIN download_urls THEN <<download_urls["mp4-low"]>>
    ELSE IF "mp4" \in DOMAIN download_urls THEN <<download_urls["mp4"]>>
    ELSE <<>>

\* "for lite languages, replace youtube ids with translated ones":
\* download_urls.get("mp4") is None when there is no "mp4" entry, and
\* None.replace raises AttributeError.
SwapIdentifier(ka_node, download_url) ==
    IF StrContains(download_url, ka_node.translated_youtube_id)
    THEN [error |-> "", url |-> download_url]
    ELSE IF "mp4" \in DOMAIN ka_node.download_urls
         THEN [error |-> "",
               url |-> StrReplace(ka_node.download_urls["mp4"],
                                  ka_node.youtube_id,
                                  ka_node.translated_youtube_id)]
         ELSE [error |-> "AttributeError", url |-> download_url]

\* Faulty variant of SubtitleLanguages: the unsubtitled set is not
\* consulted.
SubtitleLanguages_IgnoreUnsubtitled(ka_node, le_target_lang) ==
    ka_node.subtitle_languages

\* "include any subtitles that are available for this video"
SubtitleLanguages(ka_node, le_target_lang) ==
    IF le_target_lang \notin lang_tables.UNSUBTITLED_LANGS
    THEN ka_node.subtitle_languages ELSE <<>>

\* The video's own language is the (remapped) target language.
VideoInTargetLang(ka_node, target_lang) == ka_node.lang = Lower(target_lang)

SubtitleFile(ka_node, lang_code) ==
    [file_type |-> "subtitles", youtube_id |-> ka_node.translated_youtube_id,
     language |-> lang_code]

VideoFile(ka_node) ==
    [file_type |-> "video", youtube_id |-> ka_node.translated_youtube_id,
     language |-> ""]

IncludeSubtitle(lang_code, target_lang, le_target_lang) ==
    /\ is_youtube_subtitle_file_supported_language(lang_code)
    /\ \/ target_lang = "en"
       \/ should_include_subtitle(lang_code, le_target_lang)

RECURSIVE SubtitleFiles(_, _, _, _, _)
SubtitleFiles(ka_node, subtitle_languages, i, target_lang, le_target_lang) ==
    IF i > Len(subtitle_languages) THEN <<>>
    ELSE (IF IncludeSubtitle(subtitle_languages[i], target_lang, le_target_lang)
          THEN <<SubtitleFile(ka_node, subtitle_languages[i])>> ELSE <<>>)
         \o SubtitleFiles(ka_node, subtitle_languages, i + 1,
                          target_lang, le_target_lang)

VideoSourceId(ka_node) ==
    IF DUB_MARKER \in Range(ka_node.title)
    THEN ka_node.translated_youtube_id ELSE ka_node.youtube_id

ConvertVideo(n, le_target_lang) ==
    LET ka_node == ka_nodes[n]
        target_lang == MapVideoLanguage(le_target_lang)
        download_url == ResolveDownloadUrl(ka_node.download_urls)
        swapped == SwapIdentifier(ka_node, download_url[1])
        subtitle_languages == SubtitleLanguages(ka_node, le_target_lang)
    IN  IF /\ ka_node.youtube_id # ka_node.translated_youtube_id
           /\ ~VideoInTargetLang(ka_node, target_lang)
        THEN None
        ELSE IF download_url = <<>> THEN None
        ELSE IF swapped.error # "" THEN Raise(swapped.error)
        ELSE IF /\ ~VideoInTargetLang(ka_node, target_lang)
                /\ target_lang \notin Range(subtitle_languages)
        THEN None
        ELSE IF ka_node.license \notin LICENSE_MAPPING THEN None
        ELSE [OutNode("video", n) EXCEPT
                 !.source_id = VideoSourceId(ka_node),
                 !.title = ka_node.title, !.license = ka_node.license,
                 !.files = <<VideoFile(ka_node)>>
                           \o SubtitleFiles(ka_node, subtitle_languages, 1,
                                            target_lang, le_target_lang)]

(***************************************************************************)
(* Topic branch: the walk over the children and the replacement splicer.   *)
(***************************************************************************)
\* `if ka_node.slug in self.slug_blacklist: return None`
IsBlacklisted(ka_node) == ka_node.slug \in slug_blacklist

\* `isinstance(ka_node_child, KhanTopic) and
\*  ka_node_child.slug in self.topic_replacements`
HasReplacement(ka_node_child) ==
    /\ ka_node_child.kind = "KhanTopic"
    /\ ka_node_child.slug \in DOMAIN topic_replacements

\* The dict(kind=content_kinds.TOPIC, ...) shells.
TopicShell(n) ==
    [OutNode("topic", n) EXCEPT !.source_id = ka_nodes[n].id,
                                !.title = ka_nodes[n].title,
                                !.slug = ka_nodes[n].slug]

ReplacementShell(r) ==
    [OutNode("topic", 0) EXCEPT !.source_id = r.slug,
                                !.title = <<r.translatedTitle>>,
                                !.slug = r.slug]

\* Faulty variant of KeepRChildTopic: the shell is kept whatever it holds.
KeepRChildTopic_Always(rchildtopic) == TRUE

\* `if rchildtopic["children"]:` of the three-level case.
KeepRChildTopic(rchildtopic) == rchildtopic.children # <<>>

\* `if rtopic["children"]:`
KeepRTopic(rtopic) == rtopic.children # <<>>

\* "Skip empty topics": `if topic["children"]:`
KeepTopic(topic) == topic.children # <<>>

\* `'children' not in rchild`: CASE A, the two-level hierarchy.
IsTwoLevel(rchild) == ~rchild.has_children

\* `rgrandchild_slug = rchild['slug']`: the slug looked up for a grandchild.
RGrandchildSlug(rchild, rgrandchild) == rchild.slug

\* Faulty variant of AppendChild: the shell goes in front of the children
\* built so far.
AppendChild_Prepend(children, child) == <<child>> \o children

\* topic["children"].append(rtopic): where a kept shell goes.
AppendChild(children, child) == Append(children, child)

RECURSIVE convert_ka_node_to_ricecooker_node(_, _)
RECURSIVE ConvertChildren(_, _, _, _)
RECURSIVE ConvertReplacements(_, _, _, _)
RECURSIVE ConvertRChildren(_, _, _, _)
RECURSIVE ConvertRGrandchildren(_, _, _, _)

\* self.topics_by_slug[slug] followed by the recursive conversion; a slug
\* that is no key raises KeyError.
ConvertBySlug(slug, stack) ==
    IF slug \notin DOMAIN topics_by_slug THEN Raise("KeyError")
    ELSE convert_ka_node_to_ricecooker_node(topics_by_slug[slug], stack)

\* `for rgrandchild in rchild['children']:`; children is the list built so
\* far in rchildtopic["children"].
ConvertRGrandchildren(rchild, m, children, stack) ==
    IF m > Len(rchild.children) THEN [error |-> "", out |-> children]
    ELSE LET rgrandchildtopic ==
                 ConvertBySlug(RGrandchildSlug(rchild, rchild.children[m]),
                               stack)
         IN  IF rgrandchildtopic.kind = "Raise"
             THEN [error |-> rgrandchildtopic.error, out |-> children]
             ELSE ConvertRGrandchildren(rchild, m + 1,
                      IF rgrandchildtopic.kind = "None" THEN children
                      ELSE Append(children, rgrandchildtopic), stack)

\* `for rchild in r['children']:`; children is rtopic["children"] so far.
ConvertRChildren(r, k, children, stack) ==
    IF k > Len(r.children) THEN [error |-> "", out |-> children]
    ELSE LET rchild == r.children[k]
             two == ConvertBySlug(rchild.slug, stack)
             three == ConvertRGrandchildren(rchild, 1, <<>>, stack)
             rchildtopic == [ReplacementShell(rchild)
                                 EXCEPT !.children = three.out]
         IN  IF IsTwoLevel(rchild)
             THEN IF two.kind = "Raise"
                  THEN [error |-> two.error, out |-> children]
                  ELSE ConvertRChildren(r, k + 1,
                           IF two.kind = "None" THEN children
                           ELSE Append(children, two), stack)
             ELSE IF three.error # ""
                  THEN [error |-> three.error, out |-> children]
                  ELSE ConvertRChildren(r, k + 1,
                           IF KeepRChildTopic(rchildtopic)
                           THEN Append(children, rchildtopic)
                           ELSE children, stack)

\* `for r in replacements:`; children is topic["children"] so far.
ConvertReplacements(replacements, j, children, stack) ==
    IF j > Len(replacements) THEN [error |-> "", out |-> children]
    ELSE LET r == replacements[j]
             rchildren == ConvertRChildren(r, 1, <<>>, stack)
             rtopic == [ReplacementShell(r) EXCEPT !.children = rchildren.out]
         IN  IF rchildren.error # ""
             THEN [error |-> rchildren.error, out |-> children]
             ELSE ConvertReplacements(replacements, j + 1,
                      IF KeepRTopic(rtopic) THEN AppendChild(children, rtopic)
                      ELSE children, stack)

\* `for ka_node_child in ka_node.children:`; children is topic["children"].
ConvertChildren(n, i, children, stack) ==
    IF i > Len(ka_nodes[n].children) THEN [error |-> "", out |-> children]
    ELSE LET c == ka_nodes[n].children[i]
             replaced == ConvertReplacements(
                             topic_replacements[ka_nodes[c].slug], 1,
                             children, stack)
             child == convert_ka_node_to_ricecooker_node(c, stack)
         IN  IF HasReplacement(ka_nodes[c])
             THEN IF replaced.error # "" THEN replaced
                  ELSE ConvertChildren(n, i + 1, replaced.out, stack)
             ELSE IF child.kind = "Raise"
                  THEN [error |-> child.error, out |-> children]
                  ELSE ConvertChildren(n, i + 1,
                           IF child.kind = "None" THEN children
                           ELSE Append(children, child), stack)

\* stack: the object ids of the topics whose conversion is in progress. The
\* converter reads nothing but its arguments and the tables, so a call on a
\* topic already on the stack repeats itself without end until Python
\* raises RecursionError.
convert_ka_node_to_ricecooker_node(n, stack) ==
    LET ka_node == ka_nodes[n]
        walked == ConvertChildren(n, 1, <<>>, stack \cup {n})
        topic == [TopicShell(n) EXCEPT !.children = walked.out]
    IN  IF IsBlacklisted(ka_node) THEN None
        ELSE IF ka_node.kind = "KhanTopic"
        THEN IF n \in stack THEN Raise("RecursionError")
             ELSE IF walked.error # "" THEN Raise(walked.error)
             ELSE IF KeepTopic(topic) THEN topic ELSE None
        ELSE IF ka_node.kind = "KhanExercise" THEN ConvertExercise(n)
        ELSE IF ka_node.kind = "KhanVideo"
        THEN ConvertVideo(n, options.lang)
        ELSE None

(***************************************************************************)
(* The dub-duplication pass.                                               *)
(***************************************************************************)
\* list.insert(i, x), i counted from 0.
ListInsert(list, i, x) ==
    LET at == IF i > Len(list) THEN Len(list) ELSE i
    IN  SubSeq(list, 1, at) \o <<x>> \o SubSeq(list, at + 1, Len(list))

\* Faulty variant of InsertIndex: the running offset is left out.
InsertIndex_NoOffset(idx, add) == idx

\* `node.children.insert(idx + add, replica_node)`: the index handed to
\* insert, idx being the position in the snapshot `children`.
InsertIndex(idx, add) == idx + add

\* copy.deepcopy(ka_node) with translated_youtube_id and lang reassigned.
Replica(ka_node) ==
    [ka_node EXCEPT !.translated_youtube_id = ka_node.youtube_id,
                    !.lang = "en"]

RECURSIVE duplicate_videos(_, _)
RECURSIVE DuplicateLoop(_, _, _, _, _)

\* `for idx, ka_node in enumerate(children):` over the snapshot
\* children = list(node.children); h is the heap as mutated so far.
DuplicateLoop(h, node, children, idx, add) ==
    IF idx >= Len(children) THEN h
    ELSE LET k == children[idx + 1]
             replica_node == Len(h) + 1
             mutated ==
                 [Append(h, Replica(h[k])) EXCEPT
                    ![k].title = Append(h[k].title, DUB_MARKER),
                    ![node].children =
                        ListInsert(h[node].children, InsertIndex(idx, add),
                                   replica_node)]
         IN  IF h[k].kind = "KhanTopic"
             THEN DuplicateLoop(duplicate_videos(h, k), node, children,
                                idx + 1, add)
             ELSE IF h[k].kind = "KhanVideo" /\ h[k].lang # "en"
             THEN DuplicateLoop(mutated, node, children, idx + 1, add + 1)
             ELSE DuplicateLoop(h, node, children, idx + 1, add)

duplicate_videos(h, node) == DuplicateLoop(h, node, h[node].children, 0, 0)

(***************************************************************************)
(* pre_run: the steps between the download of the KA tree and the write of *)
(* the channel's JSON tree.                                                *)
(***************************************************************************)
\* `if options.get("english_subtitles"): duplicate_videos(ka_root_topic)`
DuplicateVideos ==
    /\ pc = "start"
    /\ options.english_subtitles
    /\ ka_nodes' = duplicate_videos(ka_nodes, ROOT)
    /\ pc' = "duplicated"
    /\ UNCHANGED <<topics_by_slug, slug_blacklist, topic_replacements,
                   options, lang_tables, root_topic, channel_children,
                   raised>>

\* root_topic = self.convert_ka_node_to_ricecooker_node(ka_root_topic, ...)
Convert ==
    /\ \/ pc = "duplicated"
       \/ pc = "start" /\ ~options.english_subtitles
    /\ LET r == convert_ka_node_to_ricecooker_node(ROOT, {})
       IN  IF r.kind = "Raise"
           THEN /\ raised' = r.error
                /\ pc' = "raised"
                /\ UNCHANGED root_topic
           ELSE /\ root_topic' = r
                /\ pc' = "converted"
                /\ UNCHANGED raised
    /\ UNCHANGED <<ka_nodes, topics_by_slug, slug_blacklist,
                   topic_replacements, options, lang_tables,
                   channel_children>>

\* `for topic in root_topic["children"]: channel_node["children"].append`;
\* subscripting None raises TypeError.
WriteChannel ==
    /\ pc = "converted"
    /\ IF root_topic = None
       THEN /\ raised' = "TypeError"
            /\ pc' = "raised"
            /\ UNCHANGED channel_children
       ELSE /\ channel_children' = channel_children \o root_topic.children
            /\ pc' = "written"
            /\ UNCHANGED raised
    /\ UNCHANGED <<ka_nodes, topics_by_slug, slug_blacklist,
                   topic_replacements, options, lang_tables, root_topic>>

Next == DuplicateVideos \/ Convert \/ WriteChannel

(***************************************************************************)
(* Inputs: what get_khan_topic_tree, get_slug_blacklist and                *)
(* get_topic_tree_replacements hand to pre_run.                            *)
(***************************************************************************)
SeqsUpTo(S, n) == UNION {[1..k -> S] : k \in 0..n}

NoLangTables == [VIDEO_LANGUAGE_MAPPING |-> <<>>, UNSUBTITLED_LANGS |-> {}]

\* A video every admission stage lets through for target language lang.
GoodVideo(slug, lang) ==
    KhanVideo(slug, [youtube_id |-> "y_" \o slug,
                     translated_youtube_id |-> "y_" \o slug,
                     lang |-> lang, license |-> "CC BY",
                     download_urls |-> [f \in {"mp4"} |-> Url("y_" \o slug, f)],
                     subtitle_languages |-> <<>>])

Item(id, data) == [id |-> id, data |-> data]

Leaf(slug, kind) ==
    CASE kind = "video" -> GoodVideo(slug, "fr")
      [] kind = "exercise" -> KhanExercise(slug, "do-all", <<Item(1, "p1")>>)
      [] OTHER -> KhanArticle(slug)

\* The slug -> KhanTopic table get_khan_topic_tree builds beside the tree.
TopicsBySlug(nodes) ==
    [s \in {nodes[i].slug : i \in {j \in 1..Len(nodes) :
                                      nodes[j].kind = "KhanTopic"}} |->
        CHOOSE i \in 1..Len(nodes) :
            nodes[i].slug = s /\ nodes[i].kind = "KhanTopic"]

Common ==
    /\ pc = "start"
    /\ root_topic = None
    /\ channel_children = <<>>
    /\ raised = ""

\* Replacement descriptors: child specs of the two-level and of the
\* three-level kind over the topics of the tree.
TwoLevel(slug) ==
    [slug |-> slug, translatedTitle |-> "", has_children |-> FALSE,
     children |-> <<>>]

ThreeLevel(slug, grandchildren) ==
    [slug |-> slug, translatedTitle |-> slug, has_children |-> TRUE,
     children |-> grandchildren]

RSpec(slug, children) ==
    [slug |-> slug, translatedTitle |-> slug, children |-> children]

RefSlugs == {"t3", "t4", "t5"}

GrandSlugs == {"t4", "t5"}

RChildSpecs ==
    {TwoLevel(s) : s \in RefSlugs}
    \cup {ThreeLevel(s, [i \in 1..Len(g) |-> [slug |-> g[i]]]) :
             s \in {"x", "t3"}, g \in SeqsUpTo(GrandSlugs, MaxGrandchildren)}

Descriptors ==
    {<<RSpec("r1", <<c>>)>> : c \in RChildSpecs}
    \cup {<<RSpec("r1", <<TwoLevel(a), TwoLevel(b)>>)>> :
             a \in RefSlugs, b \in RefSlugs}
    \cup {<<RSpec("r1", <<TwoLevel(a)>>), RSpec("r2", <<TwoLevel(b)>>)>> :
             a \in RefSlugs, b \in RefSlugs}

TopicReplacements ==
    {<<>>} \cup {[s \in {k} |-> d] : k \in {"t2", "t4"}, d \in Descriptors}

TreeNodes(k6, k7, k8) ==
    <<KhanTopic("root", <<2, 3>>), KhanTopic("t2", <<4, 5>>),
      KhanTopic("t3", <<6>>), KhanTopic("t4", <<7>>), KhanTopic("t5", <<8>>),
      Leaf("n6", k6), Leaf("n7", k7), Leaf("n8", k8)>>

TreeSlugs == {"root", "t2", "t3", "t4", "t5", "n6", "n7", "n8"}

Init ==
    /\ Common
    /\ \E k6 \in {"video", "exercise", "article"},
          k7 \in {"video", "article"}, k8 \in {"video", "article"} :
          ka_nodes = TreeNodes(k6, k7, k8)
    /\ topics_by_slug = TopicsBySlug(ka_nodes)
    /\ slug_blacklist \in {b \in SUBSET TreeSlugs : Cardinality(b) <= MaxBlacklist}
    /\ topic_replacements \in TopicReplacements
    /\ options \in [lang : {"fr"}, english_subtitles : BOOLEAN]
    /\ lang_tables = NoLangTables

Spec == Init /\ [][Next]_vars

(***************************************************************************)
(* Inputs for the exercise branch: a root topic holding one exercise with  *)
(* any sequence of assessment items, and an admissible video beside it.    *)
(***************************************************************************)
Payloads == {NONE, "", "null", "p1"}

Items(payloads) == [i \in 1..Len(payloads) |-> Item(i, payloads[i])]

InitExercise ==
    /\ Common
    /\ \E payloads \in SeqsUpTo(Payloads, MaxItems),
          mastery_model \in {"do-all", "unknown"} :
          ka_nodes = <<KhanTopic("root", <<2, 3>>),
                       KhanExercise("e2", mastery_model, Items(payloads)),
                       GoodVideo("n3", "fr")>>
    /\ topics_by_slug = TopicsBySlug(ka_nodes)
    /\ slug_blacklist = {}
    /\ topic_replacements = <<>>
    /\ options \in [lang : {"fr"}, english_subtitles : BOOLEAN]
    /\ lang_tables = NoLangTables

SpecExercise == InitExercise /\ [][Next]_vars

(***************************************************************************)
(* Inputs for the video branch: a root topic holding one video with any    *)
(* combination of fields, and an admissible video beside it.               *)
(***************************************************************************)
DownloadUrls ==
    UNION {{[f \in formats |-> Url(ids[f], f)] :
               ids \in [formats -> {"y1", "y1t"}]} :
              formats \in SUBSET {"mp4", "mp4-low"}}

LangTables ==
    {NoLangTables,
     [VIDEO_LANGUAGE_MAPPING |-> [l \in {"pt-BR"} |-> "pt"],
      UNSUBTITLED_LANGS |-> {}],
     [VIDEO_LANGUAGE_MAPPING |-> <<>>, UNSUBTITLED_LANGS |-> {"fr", "pt-BR"}],
     [VIDEO_LANGUAGE_MAPPING |-> [l \in {"pt-BR"} |-> "pt"],
      UNSUBTITLED_LANGS |-> {"pt-BR"}]}

SubtitleTracks ==
    {<<>>, <<"fr">>, <<"en", "fr">>, <<"pt">>, <<"pt-BR", "xx">>}

InitVideo ==
    /\ Common
    /\ options \in [lang : {"en", "fr", "pt-BR"}, english_subtitles : BOOLEAN]
    /\ lang_tables \in LangTables
    /\ \E v \in [youtube_id : {"y1"}, translated_youtube_id : {"y1", "y1t"},
                 lang : {"en", "fr", "pt", "pt-br"},
                 license : {"CC BY", "Standard Youtube"},
                 download_urls : DownloadUrls,
                 subtitle_languages : SubtitleTracks] :
          ka_nodes = <<KhanTopic("root", <<2, 3>>), KhanVideo("v2", v),
                       GoodVideo("n3", Lower(MapVideoLanguage(options.lang)))>>
    /\ topics_by_slug = TopicsBySlug(ka_nodes)
    /\ slug_blacklist = {}
    /\ topic_replacements = <<>>

SpecVideo == InitVideo /\ [][Next]_vars

(***************************************************************************)
(* Inputs for the dub-duplication pass: a topic under the root holding any *)
(* list of videos, dubbed or not.                                          *)
(***************************************************************************)
DubbedVideo(i, v) ==
    KhanVideo("v" \o ToString(i),
              [youtube_id |-> "y" \o ToString(i),
               translated_youtube_id |->
                   IF v.translated THEN "t" \o ToString(i)
                   ELSE "y" \o ToString(i),
               lang |-> v.lang, license |-> "CC BY",
               download_urls |->
                   [f \in {"mp4"} |->
                       Url(IF v.translated THEN "t" \o ToString(i)
                           ELSE "y" \o ToString(i), f)],
               subtitle_languages |-> v.subtitle_languages])

InitDub ==
    /\ Common
    /\ \E vs \in SeqsUpTo([translated : BOOLEAN, lang : {"en", "fr"},
                           subtitle_languages : {<<>>, <<"fr">>}], MaxVideos) :
          ka_nodes = <<KhanTopic("root", <<2>>),
                       KhanTopic("t2", [i \in 1..Len(vs) |-> i + 2])>>
                     \o [i \in 1..Len(vs) |-> DubbedVideo(i, vs[i])]
    /\ topics_by_slug = TopicsBySlug(ka_nodes)
    /\ slug_blacklist = {}
    /\ topic_replacements = <<>>
    /\ options \in [lang : {"en", "fr"}, english_subtitles : BOOLEAN]
    /\ lang_tables = NoLangTables

SpecDub == InitDub /\ [][Next]_vars

(***************************************************************************)
(* Inputs for the recursion through topics_by_slug: the same tree, with    *)
(* descriptors whose slugs may refer to any topic of it, the replaced      *)
(* topic and the topics above it included. Every slug resolves.            *)
(***************************************************************************)
TopicSlugs == {"root", "t2", "t3", "t4", "t5"}

AnyTopicDescriptors ==
    {<<RSpec("r1", <<TwoLevel(a)>>)>> : a \in TopicSlugs}
    \cup {<<RSpec("r1", <<TwoLevel(a), TwoLevel(b)>>)>> :
             a \in TopicSlugs, b \in TopicSlugs}
    \cup {<<RSpec("r1", <<ThreeLevel("t3", <<[slug |-> g]>>)>>)>> :
             g \in TopicSlugs}

AnyTopicReplacements ==
    {<<>>} \cup {[s \in {k} |-> d] :
                    k \in {"t2", "t4"}, d \in AnyTopicDescriptors}

InitAnyTopic ==
    /\ Common
    /\ \E k6 \in {"video", "exercise", "article"},
          k7 \in {"video", "article"}, k8 \in {"video", "article"} :
          ka_nodes = TreeNodes(k6, k7, k8)
    /\ topics_by_slug = TopicsBySlug(ka_nodes)
    /\ slug_blacklist \in {b \in SUBSET TreeSlugs : Cardinality(b) <= MaxBlacklist}
    /\ topic_replacements \in AnyTopicReplacements
    /\ options \in [lang : {"fr"}, english_subtitles : BOOLEAN]
    /\ lang_tables = NoLangTables

SpecAnyTopic == InitAnyTopic /\ [][Next]_vars

(***************************************************************************)
(* Vocabulary of the properties.                                           *)
(***************************************************************************)
\* The conversion returned a tree (or None) to pre_run.
Converted == pc \in {"converted", "written"}

RECURSIVE OutNodes(_)
OutNodes(o) ==
    {o} \cup UNION {OutNodes(o.children[i]) : i \in 1..Len(o.children)}

\* Every dict of the returned tree.
Output == IF root_topic.kind = "None" THEN {} ELSE OutNodes(root_topic)

\* The KA node n and the topics above it in the source tree.
RECURSIVE AncestorsOrSelf(_)
AncestorsOrSelf(n) ==
    {n} \cup UNION {AncestorsOrSelf(p) :
                       p \in {q \in 1..Len(ka_nodes) :
                                 n \in Range(ka_nodes[q].children)}}

RECURSIVE IsSubsequence(_, _)
IsSubsequence(s, t) ==
    IF s = <<>> THEN TRUE
    ELSE IF t = <<>> THEN FALSE
    ELSE IF Head(s) = Head(t) THEN IsSubsequence(Tail(s), Tail(t))
    ELSE IsSubsequence(s, Tail(t))

\* What identifies a dict among its siblings: the KA node it was built
\* from, or the slug of the descriptor entry for a shell.
Key(o) == [src |-> o.src, slug |-> IF o.src = 0 THEN o.slug ELSE ""]

NodeKey(n) == [src |-> n, slug |-> ""]

ShellKey(slug) == [src |-> 0, slug |-> slug]

Keys(children) == [i \in 1..Len(children) |-> Key(children[i])]

RECURSIVE Flatten(_)
Flatten(ss) == IF ss = <<>> THEN <<>> ELSE Head(ss) \o Flatten(Tail(ss))

(***************************************************************************)
(* C1. No output node is built from a KA node whose slug is blacklisted,   *)
(* nor from a descendant of such a node, replaced child topics and nodes   *)
(* reached through replacement slugs included.                             *)
(***************************************************************************)
C1_NoBlacklistedSubtreeInOutput ==
    Converted =>
        \A o \in Output :
            o.src # 0 =>
                \A a \in AncestorsOrSelf(o.src) :
                    ka_nodes[a].slug \notin slug_blacklist

(***************************************************************************)
(* C2. Every topic of the returned tree has at least one child: converted  *)
(* topics, replacement shells and three-level intermediate shells alike.   *)
(***************************************************************************)
C2_NoEmptyTopicInOutput ==
    Converted => \A o \in Output : o.kind = "topic" => o.children # <<>>

\* A returned tree that holds a replacement shell with an intermediate
\* shell in it, from a source tree in which topic t5 has no admissible
\* content and is pruned.
C2_Witness ==
    /\ Converted
    /\ \E o \in Output :
          /\ o.src = 0
          /\ \E i \in 1..Len(o.children) :
                o.children[i].src = 0 /\ o.children[i].children # <<>>
    /\ ka_nodes[8].kind = "KhanArticle"
    /\ \A o \in Output : o.src # 5

(***************************************************************************)
(* C5. A child topic with a registered descriptor is not converted into    *)
(* its parent; the non-empty replacement shells take its place in          *)
(* descriptor order, and a shell's children are in child-spec order.       *)
(***************************************************************************)
\* The keys a source child can contribute to its parent, in order.
ExpectedKeys(c) ==
    IF HasReplacement(ka_nodes[c])
    THEN [j \in 1..Len(topic_replacements[ka_nodes[c].slug]) |->
             ShellKey(topic_replacements[ka_nodes[c].slug][j].slug)]
    ELSE <<NodeKey(c)>>

\* The keys the child specs of r can contribute to r's shell, in order.
ExpectedShellKeys(r) ==
    [k \in 1..Len(r.children) |->
        IF r.children[k].has_children THEN ShellKey(r.children[k].slug)
        ELSE NodeKey(topics_by_slug[r.children[k].slug])]

\* The two-level child specs of r whose node converts to a dict.
SurvivingRefs(r) ==
    {k \in 1..Len(r.children) :
        /\ ~r.children[k].has_children
        /\ convert_ka_node_to_ricecooker_node(
               topics_by_slug[r.children[k].slug], {}).kind # "None"}

C5_ReplacementSplicedInDescriptorOrder ==
    Converted =>
        \A o \in Output :
            (o.src # 0 /\ o.kind = "topic") =>
                /\ IsSubsequence(Keys(o.children),
                       Flatten([i \in 1..Len(ka_nodes[o.src].children) |->
                                   ExpectedKeys(ka_nodes[o.src].children[i])]))
                /\ \A i \in 1..Len(ka_nodes[o.src].children) :
                      LET c == ka_nodes[o.src].children[i]
                          d == topic_replacements[ka_nodes[c].slug]
                      IN  HasReplacement(ka_nodes[c]) =>
                            \A j \in 1..Len(d) :
                               /\ \A q \in 1..Len(o.children) :
                                     Key(o.children[q]) = ShellKey(d[j].slug)
                                     => IsSubsequence(
                                            Keys(o.children[q].children),
                                            ExpectedShellKeys(d[j]))
                               /\ \A k \in SurvivingRefs(d[j]) :
                                     \E q \in 1..Len(o.children) :
                                        /\ Key(o.children[q]) = ShellKey(d[j].slug)
                                        /\ NodeKey(topics_by_slug[d[j].children[k].slug])
                                              \in Range(Keys(o.children[q].children))

\* The root's child t2 is replaced by the shells r1 and r2, which refer to
\* t5 and t4 against their order in the source tree; both survive, in
\* descriptor order, in front of the root's next child t3.
C5_Witness ==
    /\ Converted
    /\ root_topic.kind = "topic"
    /\ HasReplacement(ka_nodes[2])
    /\ Len(root_topic.children) = 3
    /\ Key(root_topic.children[1]) = ShellKey("r1")
    /\ Keys(root_topic.children[1].children) = <<NodeKey(5)>>
    /\ Key(root_topic.children[2]) = ShellKey("r2")
    /\ Keys(root_topic.children[2].children) = <<NodeKey(4)>>
    /\ Key(root_topic.children[3]) = NodeKey(3)
    /\ \A o \in Output : o.src # 2

(***************************************************************************)
(* C9. The children of a three-level intermediate shell are the            *)
(* conversions of the nodes the grandchild slugs resolve to, in spec       *)
(* order; the child spec's own slug is never resolved through              *)
(* topics_by_slug.                                                         *)
(***************************************************************************)
ThreeLevelSpecs ==
    {rc \in UNION {UNION {Range(topic_replacements[s][j].children) :
                             j \in 1..Len(topic_replacements[s])} :
                      s \in DOMAIN topic_replacements} : rc.has_children}

C9_GrandchildrenResolvedByOwnSlug ==
    Converted =>
        \A o \in Output : \A rc \in ThreeLevelSpecs :
            (o.src = 0 /\ o.slug = rc.slug) =>
                IsSubsequence(Keys(o.children),
                    [m \in 1..Len(rc.children) |->
                        NodeKey(topics_by_slug[rc.children[m].slug])])

(***************************************************************************)
(* C3. The questions of an output exercise are exactly the assessment      *)
(* items with a usable payload (present, not "null"), once each and in     *)
(* source order.                                                           *)
(***************************************************************************)
RECURSIVE UsableItems(_)
UsableItems(items) ==
    IF items = <<>> THEN <<>>
    ELSE (IF Head(items).data \in {NONE, "", "null"} THEN <<>>
          ELSE <<Head(items)>>) \o UsableItems(Tail(items))

C3_QuestionsAreTheUsableItems ==
    Converted =>
        \A o \in Output :
            o.kind = "exercise" =>
                LET usable == UsableItems(ka_nodes[o.src].items)
                IN  /\ Len(o.questions) = Len(usable)
                    /\ \A q \in 1..Len(usable) :
                          /\ o.questions[q].id = usable[q].id
                          /\ o.questions[q].item_data = usable[q].data

(***************************************************************************)
(* C7. An exercise with no usable item converts to absent without an       *)
(* exception, and its sibling is still converted.                          *)
(***************************************************************************)
C7_ExerciseWithoutQuestionsIsAbsent ==
    (/\ ka_nodes[2].kind = "KhanExercise"
     /\ UsableItems(ka_nodes[2].items) = <<>>
     /\ pc \notin {"start", "duplicated"})
    => /\ raised = ""
       /\ \A o \in Output : o.src # 2
       /\ \E o \in Output : o.src = 3

(***************************************************************************)
(* C6. A video is in the output only if its language is the (remapped)     *)
(* target language, matched as the code matches it against the lower-cased *)
(* code, or the remapped target language is among the subtitle languages   *)
(* considered; for a target language of the unsubtitled set none is        *)
(* considered: only videos in the target language are output, without      *)
(* subtitle files.                                                         *)
(***************************************************************************)
C6_VideoAdmittedByLanguageOrSubtitles ==
    Converted =>
        \A o \in Output :
            o.kind = "video" =>
                LET v == ka_nodes[o.src]
                    target == MapVideoLanguage(options.lang)
                    unsubtitled == options.lang \in lang_tables.UNSUBTITLED_LANGS
                IN  /\ \/ v.lang = Lower(target)
                       \/ ~unsubtitled /\ target \in Range(v.subtitle_languages)
                    /\ unsubtitled =>
                          /\ v.lang = Lower(target)
                          /\ \A i \in 1..Len(o.files) :
                                o.files[i].file_type # "subtitles"

\* The target language is unsubtitled; video v2 is in another language and
\* has a subtitle track in the target language, and is rejected, while a
\* video in the target language with subtitle tracks would be output.
C6_Witness ==
    /\ Converted
    /\ options.lang \in lang_tables.UNSUBTITLED_LANGS
    /\ ka_nodes[2].lang # Lower(MapVideoLanguage(options.lang))
    /\ MapVideoLanguage(options.lang) \in Range(ka_nodes[2].subtitle_languages)
    /\ ka_nodes[2].license \in LICENSE_MAPPING
    /\ "mp4" \in DOMAIN ka_nodes[2].download_urls
    /\ ka_nodes[2].youtube_id = ka_nodes[2].translated_youtube_id
    /\ \A o \in Output : o.src # 2
    /\ \E o \in Output : o.src = 3

(***************************************************************************)
(* C10. Download-URL resolution never raises, whatever formats the video   *)
(* has: the conversion goes on or the video is absent, and the sibling is  *)
(* converted.                                                              *)
(***************************************************************************)
C10_DownloadUrlResolutionNeverRaises ==
    pc \notin {"start", "duplicated"} =>
        /\ raised = ""
        /\ \E o \in Output : o.src = 3

(***************************************************************************)
(* C4. duplicate_videos puts each English clone immediately after the      *)
(* non-English video it copies, the originals keeping their order, one     *)
(* clone per non-English video and none for an English one.                *)
(***************************************************************************)
\* The step of pre_run that runs the pass.
DuplicationStep == pc = "start" /\ pc' = "duplicated"

IsDubbed(h, n) == h[n].kind = "KhanVideo" /\ h[n].lang # "en"

RECURSIVE Originals(_, _)
Originals(list, bound) ==
    IF list = <<>> THEN <<>>
    ELSE (IF Head(list) <= bound THEN <<Head(list)>> ELSE <<>>)
         \o Originals(Tail(list), bound)

\* node.children after the pass, against node.children before it; offset
\* is where the copied video stands relative to its clone (1: right after
\* the clone, -1: right before it).
ClonesPlaced(node, offset) ==
    LET old == ka_nodes[node].children
        new == ka_nodes'[node].children
        before == Len(ka_nodes)
    IN  /\ Originals(new, before) = old
        /\ Len(new) = Len(old) + Cardinality({i \in 1..Len(old) :
                                                 IsDubbed(ka_nodes, old[i])})
        /\ \A p \in 1..Len(new) :
              new[p] > before =>
                 /\ p + offset \in 1..Len(new)
                 /\ new[p + offset] <= before
                 /\ IsDubbed(ka_nodes, new[p + offset])
                 /\ ka_nodes'[new[p]] =
                      [ka_nodes[new[p + offset]] EXCEPT
                          !.translated_youtube_id =
                              ka_nodes[new[p + offset]].youtube_id,
                          !.lang = "en"]
        /\ \A p \in 1..Len(new) :
              (new[p] <= before /\ IsDubbed(ka_nodes, new[p])) =>
                 /\ p - offset \in 1..Len(new)
                 /\ new[p - offset] > before

\* The claim as stated: the clone stands right after the video it copies.
C4_CloneRightAfterItsSource ==
    [][DuplicationStep => ClonesPlaced(2, -1)]_vars

\* As the code has it: the clone stands right before the video it copies.
C4_CloneRightBeforeItsSource ==
    [][DuplicationStep => ClonesPlaced(2, 1)]_vars

\* [A(fr), B(en), C(fr)] after the pass: [A', A, B, C', C].
C4_Witness ==
    /\ pc = "duplicated"
    /\ Len(ka_nodes[2].children) = 5
    /\ ka_nodes[2].children = <<6, 3, 4, 7, 5>>
    /\ ka_nodes[4].lang = "en"
    /\ DUB_MARKER \in Range(ka_nodes[3].title)
    /\ DUB_MARKER \in Range(ka_nodes[5].title)
    /\ DUB_MARKER \notin Range(ka_nodes[6].title)

(***************************************************************************)
(* C8. After the pass and the conversion, a non-English video and the      *)
(* clone made from it never carry the same source_id.                      *)
(***************************************************************************)
\* c is the clone the pass made from n: a copy taken before n's title got
\* the dub marker.
IsCloneOf(c, n) ==
    /\ c # n
    /\ ka_nodes[c].slug = ka_nodes[n].slug
    /\ DUB_MARKER \in Range(ka_nodes[n].title)
    /\ DUB_MARKER \notin Range(ka_nodes[c].title)

C8_CloneAndSourceHaveDistinctSourceIds ==
    Converted =>
        \A o1 \in Output : \A o2 \in Output :
            (o1.kind = "video" /\ o2.kind = "video"
             /\ IsCloneOf(o2.src, o1.src))
            => o1.source_id # o2.source_id

(***************************************************************************)
(* C11. The conversion terminates for every descriptor whose slugs all     *)
(* resolve, one that refers to the replaced topic's parent or another      *)
(* ancestor included: the recursion through topics_by_slug never comes     *)
(* back to a topic whose conversion is still in progress, which is the     *)
(* only way it can go on without end (it then stops only when Python's     *)
(* stack is exhausted, with RecursionError and no tree).                   *)
(***************************************************************************)
\* Every child and grandchild slug of every descriptor resolves.
AllSlugsResolve ==
    \A s \in DOMAIN topic_replacements :
        \A j \in 1..Len(topic_replacements[s]) :
            \A rc \in Range(topic_replacements[s][j].children) :
                /\ ~rc.has_children => rc.slug \in DOMAIN topics_by_slug
                /\ \A g \in Range(rc.children) :
                      g.slug \in DOMAIN topics_by_slug

C11_ConversionTerminates ==
    (AllSlugsResolve /\ pc \notin {"start", "duplicated"})
    => raised # "RecursionError"

=============================================================================
